---- MODULE Spec2Model ----
(***************************************************************************)
(* Model of datalad's BIDS metadata parser                                 *)
(* (src/datalad/metadata/parsers/bids.py).                                 *)
(*                                                                         *)
(* MetadataParser.get_metadata is one call; the generator it returns       *)
(* (_get_cnmeta) is advanced by the caller: loading participants.tsv row   *)
(* by row, then one iteration of the loop over self.paths per step.        *)
(*                                                                         *)
(* Python semantics assumed: dicts keep insertion order and assigning to   *)
(* an existing key keeps the key's position (CPython >= 3.7); re.compile   *)
(* of equal pattern strings gives equal dict keys (the re module's cache,  *)
(* and pattern equality since 3.7).                                        *)
(***************************************************************************)
EXTENDS Integers, Sequences, FiniteSets, TLC

VARIABLES
    ds,            \* the dataset directory: descriptor, README, participants.tsv
    layout,        \* outcomes bids.get_metadata(file) can have for this dataset
    paths,         \* self.paths, the candidate files
    content,       \* get_metadata's content argument
    raiseonerror,  \* cfg.get('datalad.runtime.raiseonerror')
    pc,            \* where the call / the generator stands
    ret,           \* what get_metadata returned
    io,            \* which external resources were touched
    log,           \* lgr.warning / lgr.debug records
    ri,            \* index of the next participants.tsv row
    failed_at,     \* row at which loading raised (0: none)
    yielded,       \* the rules yield_participant_info yielded
    path_props,    \* _get_cnmeta's path_props dict, in key order
    fi,            \* index of the next path of self.paths
    queries,       \* the per-file layout queries made and their outcomes
    out            \* the (path, record) pairs the generator yielded

vars == <<ds, layout, paths, content, raiseonerror, pc, ret, io, log, ri,
          failed_at, yielded, path_props, fi, queries, out>>

----------------------------------------------------------------------------
(* Python values and strings *)

PyNone == [t |-> "none", v |-> ""]
PyStr(s) == [t |-> "str", v |-> s]
PyDict(s) == [t |-> "dict", v |-> s]
PyList(s) == [t |-> "list", v |-> s]

\* Python truth value: None and '' are falsy
Truthy(x) == x.t # "none" /\ x.v # ""

\* isinstance(v, dict)
IsDict(x) == x.t = "dict"

EmptyDict == <<>>

\* d.update(e): e's items overwrite d's
Update(d, e) == e @@ d

\* d.get(k, default)
Get(d, k, default) == IF k \in DOMAIN d THEN d[k] ELSE default

Ch(s, i) == SubSeq(s, i, i)

\* str.endswith
EndsWith(s, suf) ==
    Len(s) >= Len(suf) /\ SubSeq(s, Len(s) - Len(suf) + 1, Len(s)) = suf

\* str.startswith
StartsWith(s, pre) == Len(s) >= Len(pre) /\ SubSeq(s, 1, Len(pre)) = pre

ascii_uppercase == "ABCDEFGHIJKLMNOPQRSTUVWXYZ"
ascii_lowercase == "abcdefghijklmnopqrstuvwxyz"

LowerChar(c) ==
    IF \E i \in 1..Len(ascii_uppercase) : Ch(ascii_uppercase, i) = c
    THEN Ch(ascii_lowercase,
            CHOOSE i \in 1..Len(ascii_uppercase) : Ch(ascii_uppercase, i) = c)
    ELSE c

RECURSIVE Lower(_)
\* str.lower
Lower(s) ==
    IF s = "" THEN "" ELSE LowerChar(Ch(s, 1)) \o Lower(SubSeq(s, 2, Len(s)))

IsSpace(c) == c \in {" ", "\n", "\t"}

RECURSIVE LStrip(_)
LStrip(s) ==
    IF s # "" /\ IsSpace(Ch(s, 1)) THEN LStrip(SubSeq(s, 2, Len(s))) ELSE s

RECURSIVE RStrip(_)
RStrip(s) ==
    IF s # "" /\ IsSpace(Ch(s, Len(s)))
    THEN RStrip(SubSeq(s, 1, Len(s) - 1)) ELSE s

\* str.strip
Strip(s) == LStrip(RStrip(s))

----------------------------------------------------------------------------
(* Module tables *)

content_metakey_map ==
    ("participant_id" :> "bids:participant_id") @@ ("age" :> "bids:age(years)")

sex_label_map == ("f" :> "female") @@ ("m" :> "male")

_dsdescr_fname == "dataset_description.json"

_key2stdkey ==
    ("Name" :> "name") @@ ("License" :> "license") @@ ("Authors" :> "author")
    @@ ("ReferencesAndLinks" :> "citation") @@ ("Funding" :> "fundedby")
    @@ ("Description" :> "description")

----------------------------------------------------------------------------
(* Dataset-level metadata *)

Key2StdDropsKey(k) ==
    IF k \in DOMAIN _key2stdkey THEN _key2stdkey[k] ELSE "comment<>"

\* self._key2stdkey.get(k, 'comment<{}>'.format(k))
Key2Std(k) ==
    IF k \in DOMAIN _key2stdkey THEN _key2stdkey[k] ELSE "comment<" \o k \o ">"

\* the dict comprehension over the descriptor's items
RemapKeys(raw) ==
    [k2 \in {Key2Std(k) : k \in DOMAIN raw} |->
        raw[CHOOSE k \in DOMAIN raw : Key2Std(k) = k2]]

\* whether README is read for the description
ReadsReadme(meta, d) ==
    ~Truthy(Get(meta, "description", PyNone)) /\ d.readme_exists

WithReadme(meta, d) ==
    IF ReadsReadme(meta, d)
    THEN Update(meta, "description" :> PyStr(Strip(d.readme)))
    ELSE meta

\* (meta.get('comment<BIDSVersion>', '') or '').strip()
BidsVersion(meta) ==
    LET x == Get(meta, "comment<BIDSVersion>", PyStr(""))
    IN  Strip(IF Truthy(x) THEN x.v ELSE "")

BidsDefUrl(meta) ==
    IF BidsVersion(meta) # ""
    THEN "http://bids.neuroimaging.io" \o "/bids_spec" \o BidsVersion(meta) \o ".pdf"
    ELSE "http://bids.neuroimaging.io"

\* _get_dsmeta, given the descriptor's raw key/value mapping
GetDsmeta(raw, d) ==
    LET meta == WithReadme(RemapKeys(raw), d)
    IN  Update(Update(meta, "conformsto" :> PyStr(BidsDefUrl(meta))),
               "@context" :> PyDict(BidsDefUrl(meta) \o "#"))

DescriptorAssumed(d) == TRUE

\* the test that guards everything else in get_metadata
DescriptorPresent(d) == d.descr_exists

\* get_metadata(dataset, content)
GetMetadata ==
    /\ pc = "call"
    /\ IF ~DescriptorPresent(ds)
       THEN /\ ret' = [dsmeta |-> EmptyDict, cnmeta |-> "list"]
            /\ pc' = "returned"
            /\ io' = io
       ELSE /\ io' = io \cup {"BIDSLayout", _dsdescr_fname}
                        \cup (IF ReadsReadme(RemapKeys(ds.raw), ds)
                              THEN {"README"} ELSE {})
            /\ ret' = [dsmeta |-> GetDsmeta(ds.raw, ds),
                       cnmeta |-> IF content THEN "generator" ELSE "list"]
            /\ pc' = IF content THEN "open" ELSE "returned"
    /\ UNCHANGED <<ds, layout, paths, content, raiseonerror, log, ri,
                   failed_at, yielded, path_props, fi, queries, out>>

----------------------------------------------------------------------------
(* participants.tsv: yield_participant_info and its loop in _get_cnmeta *)

\* A row of csv.DictReader: cells[i] is the value under header[i] (None when
\* the line is short); bad: the reader itself raises on this line.

\* hk: the overlay key of column k
ColKey(k) ==
    LET normk == Lower(k)
    IN  IF normk \in DOMAIN content_metakey_map
        THEN content_metakey_map[normk]
        ELSE "comment<participant#" \o normk \o ">"

IsSexKey(hk) ==
    hk \in {"comment<participant#sex>", "comment<participant#gender>"}

SexLabelCaseSensitive(s) == Get(sex_label_map, s, s)

\* sex_label_map.get(row[k].lower(), row[k].lower())
SexLabel(s) == Get(sex_label_map, Lower(s), Lower(s))

\* val: the cell, or its sex label
ColVal(hk, cell) == IF IsSexKey(hk) THEN PyStr(SexLabel(cell.v)) ELSE cell

\* row[k].lower() on None raises AttributeError
ColRaises(hk, cell) == IsSexKey(hk) /\ cell.t = "none"

RowRaises(header, row) ==
    \/ row.bad
    \/ \E i \in 1..Len(header) : ColRaises(ColKey(header[i]), row.cells[i])

\* if val: props[hk] = val
SetProp(props, hk, val) == IF Truthy(val) THEN Update(props, hk :> val) ELSE props

RECURSIVE RowProps(_, _, _)
\* props after the first n columns of the row, in column order
RowProps(header, cells, n) ==
    IF n = 0 THEN EmptyDict
    ELSE SetProp(RowProps(header, cells, n - 1), ColKey(header[n]),
                 ColVal(ColKey(header[n]), cells[n]))

HasPidColumn(header) == \E i \in 1..Len(header) : header[i] = "participant_id"

\* row['participant_id']
RowPid(header, row) ==
    LET cell == row.cells[CHOOSE i \in 1..Len(header) : header[i] = "participant_id"]
    IN  IF cell.t = "none" THEN "None" ELSE cell.v

\* re.compile(r'^{}/.*'.format(row['participant_id'])), kept as its pattern
RuleRx(pid) == "^" \o pid \o "/.*"

\* path_props[rx] = info
SetRule(pp, rx, info) ==
    IF \E i \in 1..Len(pp) : pp[i].rx = rx
    THEN [i \in 1..Len(pp) |->
            IF pp[i].rx = rx THEN [rx |-> rx, info |-> info] ELSE pp[i]]
    ELSE Append(pp, [rx |-> rx, info |-> info])

OnLoadErrorDiscards(pp) == <<>>

\* the except clause of the load: what is kept of the rules collected so far
OnLoadError(pp) == pp

\* the start of the generator: exists(participants_fname), open, sniff
LoadParticipants ==
    /\ pc = "open"
    /\ IF ~ds.tsv_exists
       THEN /\ pc' = "files"
            /\ UNCHANGED <<io, log, path_props>>
       ELSE /\ io' = io \cup {"participants.tsv"}
            /\ IF ds.open_fails
               THEN /\ pc' = "files"
                    /\ log' = log \cup {<<"warning", "Failed to load participants info">>}
                    /\ path_props' = OnLoadError(path_props)
               ELSE /\ pc' = "rows"
                    /\ log' = IF ds.sniff_fails
                              THEN log \cup {<<"warning", "Could not determine file-format">>}
                              ELSE log
                    /\ UNCHANGED path_props
    /\ UNCHANGED <<ds, layout, paths, content, raiseonerror, ret, ri,
                   failed_at, yielded, fi, queries, out>>

\* one iteration of `for rx, info in yield_participant_info(...)`
NextParticipant ==
    /\ pc = "rows"
    /\ IF ri > Len(ds.rows) \/ ~HasPidColumn(ds.header)
       THEN \* the reader is exhausted, or the loader breaks out
            /\ pc' = "files"
            /\ UNCHANGED <<log, ri, failed_at, yielded, path_props>>
       ELSE IF RowRaises(ds.header, ds.rows[ri])
       THEN /\ pc' = "files"
            /\ failed_at' = ri
            /\ log' = log \cup {<<"warning", "Failed to load participants info">>}
            /\ path_props' = OnLoadError(path_props)
            /\ UNCHANGED <<ri, yielded>>
       ELSE LET props == RowProps(ds.header, ds.rows[ri].cells, Len(ds.header))
                rx == RuleRx(RowPid(ds.header, ds.rows[ri]))
            IN  /\ ri' = ri + 1
                /\ IF props # EmptyDict
                   THEN /\ yielded' = Append(yielded, [row |-> ri, rx |-> rx, info |-> props])
                        /\ path_props' = SetRule(path_props, rx, props)
                   ELSE UNCHANGED <<yielded, path_props>>
                /\ UNCHANGED <<pc, log, failed_at>>
    /\ UNCHANGED <<ds, layout, paths, content, raiseonerror, ret, io,
                   fi, queries, out>>

----------------------------------------------------------------------------
(* The loop over self.paths in _get_cnmeta *)

IsSidecarAnyJson(f) == EndsWith(f, "json")

\* f.endswith('.json')
IsSidecar(f) == EndsWith(f, ".json")

\* rx.match(f) for the patterns RuleRx builds: anchored at the start, the
\* id then "/", with "." matching any character, then anything
RxMatch(rx, f) ==
    LET body == SubSeq(rx, 2, Len(rx) - 2)
    IN  /\ Len(f) >= Len(body)
        /\ \A i \in 1..Len(body) : Ch(body, i) = "." \/ Ch(body, i) = Ch(f, i)

\* which values of the query result are kept
Kept(v) == ~IsDict(v)

\* {'bids:{}'.format(k): v for k, v in ....items() if not isinstance(v, dict)}
Flatten(md) ==
    [k2 \in {"bids:" \o k : k \in {k \in DOMAIN md : Kept(md[k])}} |->
        md[SubSeq(k2, Len("bids:") + 1, Len(k2))]]

BaseRecordKeepsPartial(q) == Flatten(q.md)

\* md after the try block: a query that raises leaves md = {}
BaseRecord(q) == IF q.raises THEN EmptyDict ELSE Flatten(q.md)

RECURSIVE ApplyRules(_, _, _, _)
\* for rx in path_props: if rx.match(f): md.update(path_props[rx])
\* (the first n rules, in the dict's key order)
ApplyRules(pp, f, md, n) ==
    IF n = 0 THEN md
    ELSE LET m == ApplyRules(pp, f, md, n - 1)
         IN  IF RxMatch(pp[n].rx, f) THEN Update(m, pp[n].info) ELSE m

ReraiseNever == FALSE

\* if cfg.get('datalad.runtime.raiseonerror'): raise
Reraise == raiseonerror

\* one iteration of `for f in self.paths`
NextFile ==
    /\ pc = "files"
    /\ fi <= Len(paths)
    /\ IF IsSidecar(paths[fi])
       THEN /\ fi' = fi + 1
            /\ UNCHANGED <<pc, io, log, queries, out>>
       ELSE \E q \in layout :
            /\ queries' = Append(queries, [f |-> paths[fi], q |-> q])
            /\ io' = io \cup {"get_metadata"}
            /\ log' = IF q.raises
                      THEN log \cup {<<"debug", "no usable BIDS metadata">>}
                      ELSE log
            /\ IF q.raises /\ Reraise
               THEN /\ pc' = "raised"
                    /\ UNCHANGED <<fi, out>>
               ELSE /\ out' = Append(out,
                            <<paths[fi],
                              ApplyRules(path_props, paths[fi], BaseRecord(q),
                                         Len(path_props))>>)
                    /\ fi' = fi + 1
                    /\ UNCHANGED pc
    /\ UNCHANGED <<ds, layout, paths, content, raiseonerror, ret, ri,
                   failed_at, yielded, path_props>>

\* self.paths is exhausted: the generator ends
Finish ==
    /\ pc = "files"
    /\ fi > Len(paths)
    /\ pc' = "done"
    /\ UNCHANGED <<ds, layout, paths, content, raiseonerror, ret, io, log, ri,
                   failed_at, yielded, path_props, fi, queries, out>>

Next == GetMetadata \/ LoadParticipants \/ NextParticipant \/ NextFile \/ Finish

----------------------------------------------------------------------------
(* Inputs *)

MaxPaths == 3
MaxRows == 3
MaxTsvRows == 1
MaxKeys == 2

SeqsUpTo(S, n) == UNION {[1..k -> S] : k \in 0..n}

Returns(md) == [raises |-> FALSE, md |-> md]
\* a query that raises; md: the items that would have been seen before it did
Raises(md) == [raises |-> TRUE, md |-> md]

\* what bids.get_metadata(opj(self.ds.path, f)) can do
QueryOutcomes ==
    { Raises(EmptyDict),
      Raises("EchoTime" :> PyStr("2")),
      Returns(("EchoTime" :> PyStr("2")) @@ ("Dicom" :> PyDict("{'a': 1}"))),
      Returns("Sequence" :> PyList("[{'a': 1}]")),
      Returns("participant_id" :> PyStr("zz")) }

Row(pid, c2, c3) == [cells |-> <<PyStr(pid), c2, c3>>, bad |-> FALSE]
BadRow(pid, c2, c3) == [cells |-> <<PyStr(pid), c2, c3>>, bad |-> TRUE]

\* a dataset with a descriptor and nothing else
DsBase ==
    [descr_exists |-> TRUE, raw |-> ("Name" :> PyStr("X")),
     readme_exists |-> FALSE, readme |-> "",
     tsv_exists |-> FALSE, open_fails |-> FALSE, sniff_fails |-> FALSE,
     header |-> <<>>, rows |-> <<>>]

WithTable(d, header, rows) ==
    [d EXCEPT !.tsv_exists = TRUE, !.header = header, !.rows = rows]

StdHeader == <<"participant_id", "age", "sex">>

\* the state before get_metadata is called
Start ==
    /\ pc = "call"
    /\ ret = [dsmeta |-> EmptyDict, cnmeta |-> "pending"]
    /\ io = {}
    /\ log = {}
    /\ ri = 1
    /\ failed_at = 0
    /\ yielded = <<>>
    /\ path_props = <<>>
    /\ fi = 1
    /\ queries = <<>>
    /\ out = <<>>

(* Spec: any list of candidate paths and any query outcomes, over a fixed
   subject table (or none) *)
Files == {"a/t", "b/json", "a/t.json"}

FixedTable ==
    WithTable(DsBase, StdHeader,
              <<Row("a", PyStr("30"), PyStr("F")), Row(".", PyStr("40"), PyStr(""))>>)

Init ==
    /\ ds \in {DsBase, FixedTable}
    /\ layout = QueryOutcomes
    /\ paths \in SeqsUpTo(Files, MaxPaths)
    /\ content = TRUE
    /\ raiseonerror \in BOOLEAN
    /\ Start

Spec == Init /\ [][Next]_vars

(* SpecRows: any subject table over a fixed header, two candidate files *)
RowsPicked ==
    { Row("a", PyStr("30"), PyStr("")),
      Row("a", PyStr(""), PyStr("F")),
      Row(".", PyStr("40"), PyStr("")),
      Row(".", PyStr(""), PyStr("")),
      Row("", PyStr(""), PyStr("")),
      Row("a", PyStr("30"), PyNone) }

InitRows ==
    /\ ds \in {WithTable(DsBase, StdHeader, rows) : rows \in SeqsUpTo(RowsPicked, MaxRows)}
              \cup {[FixedTable EXCEPT !.open_fails = TRUE],
                    [FixedTable EXCEPT !.sniff_fails = TRUE],
                    WithTable(DsBase, StdHeader,
                              <<Row("a", PyStr("30"), PyStr("")),
                                BadRow(".", PyStr("40"), PyStr(""))>>)}
    /\ layout = {Raises(EmptyDict), Returns("participant_id" :> PyStr("zz"))}
    /\ paths = <<"a/t", "a/t.json", "b/t">>
    /\ content = TRUE
    /\ raiseonerror \in BOOLEAN
    /\ Start

SpecRows == InitRows /\ [][Next]_vars

(* SpecTsv: any header and any cells, two candidate files *)
Headers ==
    { <<"participant_id", "age", "Sex">>,
      <<"participant_id", "gender", "Hand">>,
      <<"participant_id", "age", "Age">>,
      <<"Participant_ID", "age", "sex">> }

Pids == {"sub-01", ""}
Cells == {PyNone, PyStr(""), PyStr("F"), PyStr("m"), PyStr("Other")}

\* the subject table of the documented example: sub-02 has no age
ExampleTable(missing) ==
    WithTable(DsBase, StdHeader,
              <<Row("sub-01", PyStr("30"), PyStr("F")), Row("sub-02", missing, PyStr(""))>>)

TsvRows == {Row(p, c2, c3) : p \in Pids, c2 \in Cells, c3 \in Cells}

InitTsv ==
    /\ ds \in {WithTable(DsBase, h, rows) :
                 h \in Headers, rows \in SeqsUpTo(TsvRows, MaxTsvRows)}
              \cup {ExampleTable(PyStr("")), ExampleTable(PyNone)}
    /\ layout = {Returns(EmptyDict)}
    /\ paths = <<"sub-01/anat/t1.nii", "sub-02/anat/t1.nii">>
    /\ content = TRUE
    /\ raiseonerror = FALSE
    /\ Start

SpecTsv == InitTsv /\ [][Next]_vars

(* SpecDs: any descriptor, with or without a README *)
RawKeys == {"Name", "name", "Description", "BIDSVersion", "Unknown", "conformsto"}
RawValues == {PyNone, PyStr(""), PyStr("X"), PyStr(" 1.2 ")}

Descriptors ==
    UNION {[K -> RawValues] : K \in {K \in SUBSET RawKeys : Cardinality(K) <= MaxKeys}}

InitDs ==
    /\ ds \in {[FixedTable EXCEPT !.descr_exists = e, !.raw = raw,
                                  !.readme_exists = r[1], !.readme = r[2]] :
                 e \in BOOLEAN, raw \in Descriptors,
                 r \in {<<FALSE, "">>, <<TRUE, "">>, <<TRUE, "  Hello world  ">>}}
    /\ layout = {Returns(EmptyDict)}
    /\ paths = <<"a/t", "a/t.json">>
    /\ content \in BOOLEAN
    /\ raiseonerror = FALSE
    /\ Start

SpecDs == InitDs /\ [][Next]_vars

----------------------------------------------------------------------------
(* Properties of the per-file sequence (Spec) *)

\* the paths yielded so far, in the order yielded
OutPaths == [i \in 1..Len(out) |-> out[i][1]]

RECURSIVE WithoutJson(_)
\* a path list with every path ending in ".json" removed
WithoutJson(ps) ==
    IF ps = <<>> THEN <<>>
    ELSE IF EndsWith(Head(ps), ".json") THEN WithoutJson(Tail(ps))
    ELSE <<Head(ps)>> \o WithoutJson(Tail(ps))

\* the rules of path_props whose pattern matches f
Matching(f) == {n \in 1..Len(path_props) : RxMatch(path_props[n].rx, f)}

\* C1: in lenient mode, whatever the queries do, the paths yielded are the
\* paths visited so far with every ".json" path removed, in input order; the
\* generator never raises, and it ends only after the last path.
C1_YieldedPaths ==
    ~raiseonerror =>
        /\ OutPaths = WithoutJson(SubSeq(paths, 1, fi - 1))
        /\ pc # "raised"
        /\ (pc = "done" => fi = Len(paths) + 1)

C1_Witness ==
    /\ ~raiseonerror
    /\ pc = "done"
    /\ Len(paths) = 3
    /\ EndsWith(paths[2], ".json")
    /\ Len(out) = 2
    /\ out[1][1] # out[2][1]
    /\ \E i \in 1..Len(queries) : queries[i].q.raises

\* C2 as stated: in lenient mode the record of a path whose query raised has
\* no key with the prefix "bids:".
C2_NoBidsKeys ==
    ~raiseonerror =>
        \A i \in 1..Len(out) :
            queries[i].q.raises =>
                \A k \in DOMAIN out[i][2] : ~StartsWith(k, "bids:")

\* C2 amended: in lenient mode a path whose query raised is still yielded,
\* and its record holds nothing from the query: its keys are exactly the
\* properties of the subject-table rules that match the path, so its only
\* "bids:" keys are bids:participant_id and bids:age(years), and the record
\* is empty when no rule matches.
C2_OnlyOverlay ==
    ~raiseonerror =>
        /\ Len(out) = Len(queries)
        /\ \A i \in 1..Len(out) :
            queries[i].q.raises =>
                /\ out[i][1] = queries[i].f
                /\ DOMAIN out[i][2] =
                     UNION {DOMAIN path_props[n].info : n \in Matching(out[i][1])}
                /\ \A k \in DOMAIN out[i][2] :
                     /\ \E n \in Matching(out[i][1]) :
                            /\ k \in DOMAIN path_props[n].info
                            /\ out[i][2][k] = path_props[n].info[k]
                     /\ StartsWith(k, "bids:") =>
                            k \in {"bids:participant_id", "bids:age(years)"}

C2_Witness ==
    /\ ~raiseonerror
    /\ \E i \in 1..Len(out) :
        /\ queries[i].q.raises
        /\ queries[i].q.md # EmptyDict
        /\ "bids:participant_id" \in DOMAIN out[i][2]
        /\ "comment<participant#sex>" \in DOMAIN out[i][2]

\* C3: in strict mode the first query that raises ends the generator with
\* that exception: it is the last query made, the pairs of the non-sidecar
\* paths before the failing one have been yielded and nothing else, and no
\* further step is possible.
C3_StrictAborts ==
    raiseonerror =>
        /\ \A i \in 1..Len(queries) :
              queries[i].q.raises => (i = Len(queries) /\ pc = "raised")
        /\ pc = "raised" =>
              /\ queries # <<>>
              /\ queries[Len(queries)].q.raises
              /\ queries[Len(queries)].f = paths[fi]
              /\ OutPaths = WithoutJson(SubSeq(paths, 1, fi - 1))
              /\ ~ENABLED Next

C3_Witness ==
    /\ raiseonerror
    /\ pc = "raised"
    /\ Len(paths) = 3
    /\ fi = 2
    /\ Len(out) = 1
    /\ ~EndsWith(paths[3], ".json")

\* C5 as stated: every value of every yielded record is a scalar.
C5_ScalarValues ==
    \A i \in 1..Len(out) :
        \A k \in DOMAIN out[i][2] : out[i][2][k].t = "str"

----------------------------------------------------------------------------
(* Properties of the overlay of subject-table rules (SpecRows) *)

RECURSIVE MergeRows(_, _, _, _)
\* md overlaid with the properties of each of the first n yielded rules that
\* matches f, one row after the other
MergeRows(ys, f, md, n) ==
    IF n = 0 THEN md
    ELSE LET m == MergeRows(ys, f, md, n - 1)
         IN  IF RxMatch(ys[n].rx, f) THEN Update(m, ys[n].info) ELSE m

\* C4 as stated: the record of every yielded file is what the query gave
\* overlaid with the properties of every row whose rule matches the path,
\* merged in row order, rows with the same participant_id included.
C4_OverlayAllRows ==
    \A i \in 1..Len(out) :
        out[i][2] = MergeRows(yielded, out[i][1], BaseRecord(queries[i].q),
                              Len(yielded))

\* the rows whose rule matches f, among the rows read
MatchingRows(f) == {n \in 1..Len(yielded) : RxMatch(yielded[n].rx, f)}

LastMatchingRow(f) ==
    CHOOSE n \in MatchingRows(f) : \A m \in MatchingRows(f) : m <= n

\* C10 as stated: every row read with a non-empty participant_id yields a
\* rule carrying bids:participant_id, and every yielded file whose path
\* matches a rule carries the participant_id of the last matching row,
\* whether or not its query succeeded.
C10_ParticipantId ==
    /\ \A j \in 1..(ri - 1) :
          RowPid(ds.header, ds.rows[j]) # "" =>
              \E n \in 1..Len(yielded) :
                  /\ yielded[n].row = j
                  /\ "bids:participant_id" \in DOMAIN yielded[n].info
                  /\ yielded[n].info["bids:participant_id"]
                        = PyStr(RowPid(ds.header, ds.rows[j]))
    /\ \A i \in 1..Len(out) :
          MatchingRows(out[i][1]) # {} =>
              /\ "bids:participant_id" \in DOMAIN out[i][2]
              /\ out[i][2]["bids:participant_id"]
                    = yielded[LastMatchingRow(out[i][1])].info["bids:participant_id"]

RECURSIVE LoadRows(_, _, _)
\* the rules the first n rows of a table give when none of them fails
LoadRows(header, rows, n) ==
    IF n = 0 THEN <<>>
    ELSE LET pp == LoadRows(header, rows, n - 1)
             props == RowProps(header, rows[n].cells, Len(header))
         IN  IF props # EmptyDict
             THEN SetRule(pp, RuleRx(RowPid(header, rows[n])), props)
             ELSE pp

\* reading the subject table raised: at the open, or at row failed_at
LoadFailed ==
    \/ failed_at > 0
    \/ pc \in {"files", "done", "raised"} /\ ds.tsv_exists /\ ds.open_fails

\* the rows read before the failure
RowsBeforeFailure == IF failed_at > 0 THEN failed_at - 1 ELSE 0

----------------------------------------------------------------------------
(* Properties of the translation of subject-table rows (SpecTsv) *)

\* the overlay key each column of the tables above should give
ExpectedKey ==
    ("participant_id" :> "bids:participant_id")
    @@ ("age" :> "bids:age(years)") @@ ("Age" :> "bids:age(years)")
    @@ ("sex" :> "comment<participant#sex>") @@ ("Sex" :> "comment<participant#sex>")
    @@ ("gender" :> "comment<participant#gender>")
    @@ ("Hand" :> "comment<participant#hand>")

ExpectedLabel ==
    ("F" :> "female") @@ ("m" :> "male") @@ ("Other" :> "other")
    @@ ("30" :> "30") @@ ("" :> "")

\* the overlay value a cell under column col should give
ExpectedVal(col, cell) ==
    IF col \in {"sex", "Sex", "gender"} THEN PyStr(ExpectedLabel[cell.v]) ELSE cell

\* the columns of row j that hold a non-empty value
NonEmpty(j) ==
    {c \in 1..Len(ds.header) : Truthy(ds.rows[j].cells[c])}

\* the rules yielded for row j
RulesOf(j) == {n \in 1..Len(yielded) : yielded[n].row = j}

LastColumnOf(j, k) ==
    CHOOSE c \in NonEmpty(j) :
        /\ ExpectedKey[ds.header[c]] = k
        /\ \A d \in NonEmpty(j) : ExpectedKey[ds.header[d]] = k => d <= c

----------------------------------------------------------------------------
(* Properties of get_metadata and the dataset record (SpecDs) *)

\* the record key the documentation gives for raw key k
ExpectedStdKey(k) ==
    CASE k = "Name" -> "name"
      [] k = "License" -> "license"
      [] k = "Authors" -> "author"
      [] k = "ReferencesAndLinks" -> "citation"
      [] k = "Funding" -> "fundedby"
      [] k = "Description" -> "description"
      [] OTHER -> "comment<" \o k \o ">"

\* C7: every raw key of the descriptor is in the dataset record under its
\* fixed-table name, or under comment<key>, with its value; no two raw keys
\* share a record key; only a missing or empty description may be replaced,
\* by the stripped README text.
C7_NoInformationLoss ==
    (ds.descr_exists /\ pc # "call") =>
        LET meta == ret.dsmeta
            raw == ds.raw
            nodescr == "Description" \notin DOMAIN raw \/ ~Truthy(raw["Description"])
        IN  /\ \A k \in DOMAIN raw :
                  /\ ExpectedStdKey(k) \in DOMAIN meta
                  /\ \/ meta[ExpectedStdKey(k)] = raw[k]
                     \/ k = "Description" /\ nodescr /\ ds.readme_exists
            /\ Cardinality(DOMAIN meta \ {"conformsto", "@context", "description"})
                  = Cardinality(DOMAIN raw \ {"Description"})
            /\ (nodescr /\ ds.readme_exists) =>
                  meta["description"]
                     = PyStr(IF ds.readme = "" THEN "" ELSE "Hello world")

C7_Witness ==
    /\ pc # "call"
    /\ ds.descr_exists
    /\ DOMAIN ds.raw = {"Name", "Unknown"}
    /\ "name" \in DOMAIN ret.dsmeta
    /\ ret.dsmeta["name"] = PyStr("X")
    /\ "comment<Unknown>" \in DOMAIN ret.dsmeta
    /\ ret.dsmeta["comment<Unknown>"] = PyStr(" 1.2 ")

\* C8: without the descriptor file get_metadata returns an empty record and
\* an empty list, whatever content is, and touches nothing: no layout, no
\* README, no subject table, no query, no log record.
C8_AbsentDescriptor ==
    (~ds.descr_exists /\ pc # "call") =>
        /\ pc = "returned"
        /\ ret = [dsmeta |-> EmptyDict, cnmeta |-> "list"]
        /\ io = {}
        /\ log = {}
        /\ queries = <<>>
        /\ out = <<>>
        /\ path_props = <<>>

C8_Witness ==
    /\ ~ds.descr_exists
    /\ content
    /\ ds.readme_exists
    /\ ds.tsv_exists
    /\ pc = "returned"

====
